---- MODULE Spec2Model ----
(***************************************************************************)
(* Model of the git strategies of vcsstate (git17, git28, remoteGit17,     *)
(* remoteGit28) and of the older package-level helper CheckGitRepoLocal.   *)
(* Every operation spawns an external git command, receives its exit       *)
(* status, stdout and stderr, and classifies/parses them.  Byte strings    *)
(* are sequences of one-character strings, so that length checks, prefix   *)
(* tests, slicing and splitting are computed as the Go code computes them. *)
(***************************************************************************)
EXTENDS Integers, Sequences, FiniteSets, TLC

VARIABLES
    pc,             \* "idle", "remoteBranch" (RemoteBranchAndRevision is about to call g.remoteBranch), "done"
    impl,           \* the strategy called: git17, git28, remoteGit17, remoteGit28, or "vcs" (package-level functions)
    op,             \* the operation called
    revision,       \* the revision argument
    defaultBranch,  \* the defaultBranch argument
    origin,         \* whether the repository has an "origin" remote
    input,          \* the out argument of a parser called directly
    spawned,        \* the commands spawned by this call, in order
    outcomes,       \* their exit status, stdout and stderr, in order
    lsRevision,     \* the revision RemoteBranchAndRevision found in the ls-remote output
    ret             \* the values returned

vars == <<pc, impl, op, revision, defaultBranch, origin, input, spawned, outcomes, lsRevision, ret>>

(***************************************************************************)
(* Go string and bytes helpers                                             *)
(***************************************************************************)
Empty == <<>>

NL == "\n"

TAB == "\t"

\* bytes.HasPrefix / strings.HasPrefix
HasPrefix(s, prefix) ==
    /\ Len(s) >= Len(prefix)
    /\ SubSeq(s, 1, Len(prefix)) = prefix

\* strings.HasSuffix
HasSuffix(s, suffix) ==
    /\ Len(s) >= Len(suffix)
    /\ SubSeq(s, Len(s) - Len(suffix) + 1, Len(s)) = suffix

\* strings.TrimSuffix
TrimSuffix(s, suffix) ==
    IF HasSuffix(s, suffix) THEN SubSeq(s, 1, Len(s) - Len(suffix)) ELSE s

\* s[n:] for 0 <= n <= len(s) (the callers test the range first)
SliceFrom(s, n) == SubSeq(s, n + 1, Len(s))

\* bytes.Index: the 0-based position of the first occurrence of sub in s, or -1
Index(s, sub) ==
    LET hits == {i \in 0..(Len(s) - Len(sub)) : SubSeq(s, i + 1, i + Len(sub)) = sub}
    IN  IF hits = {} THEN -1 ELSE CHOOSE i \in hits : \A j \in hits : i <= j

\* bytes.IndexByte
IndexByte(s, c) == Index(s, <<c>>)

\* strings.Split(s, sep) for a one-byte separator: always at least one field
RECURSIVE Split(_, _)
Split(s, sep) ==
    LET i == IndexByte(s, sep)
    IN  IF i = -1 THEN <<s>>
        ELSE <<SubSeq(s, 1, i)>> \o Split(SliceFrom(s, i + 1), sep)

\* strings.SplitN(s, sep, 2): at most two fields, the second is the unsplit rest
SplitN2(s, sep) ==
    LET i == IndexByte(s, sep)
    IN  IF i = -1 THEN <<s>> ELSE <<SubSeq(s, 1, i), SliceFrom(s, i + 1)>>

\* strings.Split(string(out[:len(out)-1]), "\n"): the last byte is dropped, whatever it is
Lines(out) == Split(SubSeq(out, 1, Len(out) - 1), NL)

(***************************************************************************)
(* String constants of the source                                          *)
(***************************************************************************)
gitRevisionLength == 40

sContains == <<"c","o","n","t","a","i","n","s","\n">>

sNoSuchCommit == <<"e","r","r","o","r",":"," ","n","o"," ","s","u","c","h"," ","c","o","m","m","i","t"," ">>

sStar == <<"*"," ">>

sTwoSpaces == <<" "," ">>

sOriginSlash == <<" "," ","o","r","i","g","i","n","/">>

sNoSuchRemote == <<"f","a","t","a","l",":"," ","N","o"," ","s","u","c","h"," ","r","e","m","o","t","e"," ","'","o","r","i","g","i","n","'","\n">>

sNotARepository == <<"f","a","t","a","l",":"," ","'","o","r","i","g","i","n","'"," ","d","o","e","s"," ","n","o","t"," ","a","p","p","e","a","r"," ","t","o"," ","b","e"," ","a"," ","g","i","t"," ","r","e","p","o","s","i","t","o","r","y","\n">>

sRepositoryNotFound == <<"r","e","m","o","t","e",":"," ","R","e","p","o","s","i","t","o","r","y"," ","n","o","t"," ","f","o","u","n","d",".","\n">>

sHEAD == <<"H","E","A","D">>

sRefPrefix == <<"r","e","f",":"," ","r","e","f","s","/","h","e","a","d","s","/">>

sRefsHeads == <<"r","e","f","s","/","h","e","a","d","s","/">>

sMaster == <<"m","a","s","t","e","r">>

sHeadBranch == <<"\n"," "," ","H","E","A","D"," ","b","r","a","n","c","h",":"," ">>

sOrigin == <<"o","r","i","g","i","n">>

sFetch == <<" ","(","f","e","t","c","h",")">>

\* fmt.Sprintf("error: no such commit %s\n", revision)
NoSuchCommitMsg(rev) == sNoSuchCommit \o rev \o <<NL>>

(***************************************************************************)
(* Results.  err is "nil" or the kind of the error value returned; "panic" *)
(* stands for a run-time panic (index or slice bounds out of range).       *)
(***************************************************************************)
Result(b, s, br, rev, e) == [b |-> b, s |-> s, branch |-> br, revision |-> rev, err |-> e]

ErrResult(e) == Result(FALSE, Empty, Empty, Empty, e)

(***************************************************************************)
(* Output parsers                                                          *)
(***************************************************************************)
\* parseGit28Loop taking a HEAD revision only if it has gitRevisionLength bytes, as LocalRevision does
RECURSIVE parseGit28Loop_LengthChecked(_, _, _, _)
parseGit28Loop_LengthChecked(lines, i, br, rev) ==
    IF i > Len(lines)
    THEN IF br = Empty /\ rev # Empty
         THEN Result(FALSE, Empty, Empty, rev, "errBranchNotFound")
         ELSE ErrResult("NotFoundInOutput")
    ELSE LET parts == SplitN2(lines[i], TAB)
         IN  IF Len(parts) < 2 THEN ErrResult("panic")
             ELSE IF parts[2] # sHEAD THEN parseGit28Loop_LengthChecked(lines, i + 1, br, rev)
             ELSE LET isRef == HasPrefix(parts[1], sRefPrefix)
                      br2 == IF isRef THEN SliceFrom(parts[1], Len(sRefPrefix)) ELSE br
                      rev2 == IF isRef \/ Len(parts[1]) # gitRevisionLength THEN rev ELSE parts[1]
                  IN  IF br2 # Empty /\ rev2 # Empty
                      THEN Result(FALSE, Empty, br2, rev2, "nil")
                      ELSE parseGit28Loop_LengthChecked(lines, i + 1, br2, rev2)

\* parseGit28Loop with the branch name cut after "refs/heads/" instead of "ref: refs/heads/"
RECURSIVE parseGit28Loop_ShortPrefix(_, _, _, _)
parseGit28Loop_ShortPrefix(lines, i, br, rev) ==
    IF i > Len(lines)
    THEN IF br = Empty /\ rev # Empty
         THEN Result(FALSE, Empty, Empty, rev, "errBranchNotFound")
         ELSE ErrResult("NotFoundInOutput")
    ELSE LET parts == SplitN2(lines[i], TAB)
         IN  IF Len(parts) < 2 THEN ErrResult("panic")
             ELSE IF parts[2] # sHEAD THEN parseGit28Loop_ShortPrefix(lines, i + 1, br, rev)
             ELSE LET isRef == HasPrefix(parts[1], sRefPrefix)
                      br2 == IF isRef THEN SliceFrom(parts[1], Len(sRefsHeads)) ELSE br
                      rev2 == IF isRef THEN rev ELSE parts[1]
                  IN  IF br2 # Empty /\ rev2 # Empty
                      THEN Result(FALSE, Empty, br2, rev2, "nil")
                      ELSE parseGit28Loop_ShortPrefix(lines, i + 1, br2, rev2)

\* the loop of parseGit28LsRemote from line i on, with the branch and revision found so far
RECURSIVE parseGit28Loop(_, _, _, _)
parseGit28Loop(lines, i, br, rev) ==
    IF i > Len(lines)
    THEN IF br = Empty /\ rev # Empty
         THEN Result(FALSE, Empty, Empty, rev, "errBranchNotFound")
         ELSE ErrResult("NotFoundInOutput")
    ELSE LET parts == SplitN2(lines[i], TAB)
         IN  IF Len(parts) < 2 THEN ErrResult("panic")
             ELSE IF parts[2] # sHEAD THEN parseGit28Loop(lines, i + 1, br, rev)
             ELSE LET isRef == HasPrefix(parts[1], sRefPrefix)
                      br2 == IF isRef THEN SliceFrom(parts[1], Len(sRefPrefix)) ELSE br
                      rev2 == IF isRef THEN rev ELSE parts[1]
                  IN  IF br2 # Empty /\ rev2 # Empty
                      THEN Result(FALSE, Empty, br2, rev2, "nil")
                      ELSE parseGit28Loop(lines, i + 1, br2, rev2)

\* parseGit28LsRemote: branch and revision from the output of ls-remote --symref
parseGit28LsRemote(out) ==
    IF Len(out) = 0 THEN ErrResult("EmptyOutput")
    ELSE parseGit28Loop(Lines(out), 1, Empty, Empty)

\* guessBranchLoop without the preference for master: the last matching branch wins
RECURSIVE guessBranchLoop_LastMatch(_, _, _, _)
guessBranchLoop_LastMatch(lines, i, rev0, br) ==
    IF i > Len(lines)
    THEN IF br = Empty
         THEN ErrResult("errBranchNotFound")
         ELSE Result(FALSE, Empty, br, Empty, "nil")
    ELSE LET revRef == SplitN2(lines[i], TAB)
         IN  IF Len(revRef) < 2 THEN ErrResult("panic")
             ELSE IF revRef[1] # rev0 \/ revRef[2] = sHEAD
                  THEN guessBranchLoop_LastMatch(lines, i + 1, rev0, br)
             ELSE IF Len(revRef[2]) < Len(sRefsHeads) THEN ErrResult("panic")
             ELSE guessBranchLoop_LastMatch(lines, i + 1, rev0, SliceFrom(revRef[2], Len(sRefsHeads)))

\* the loop of guessBranch from line i on, with the branch found so far ("panic" once it panicked)
RECURSIVE guessBranchLoop(_, _, _, _)
guessBranchLoop(lines, i, rev0, br) ==
    IF i > Len(lines)
    THEN IF br = Empty
         THEN ErrResult("errBranchNotFound")
         ELSE Result(FALSE, Empty, br, Empty, "nil")
    ELSE LET revRef == SplitN2(lines[i], TAB)
         IN  IF Len(revRef) < 2 THEN ErrResult("panic")
             ELSE IF revRef[1] # rev0 \/ revRef[2] = sHEAD
                  THEN guessBranchLoop(lines, i + 1, rev0, br)
             ELSE IF br # sMaster
                  THEN IF Len(revRef[2]) < Len(sRefsHeads) THEN ErrResult("panic")
                       ELSE guessBranchLoop(lines, i + 1, rev0, SliceFrom(revRef[2], Len(sRefsHeads)))
             ELSE guessBranchLoop(lines, i + 1, rev0, br)

\* guessBranch: best-effort HEAD branch from ls-remote output without symref
guessBranch(out, rev0) ==
    IF Len(out) = 0 THEN ErrResult("EmptyOutput")
    ELSE guessBranchLoop(Lines(out), 1, rev0, Empty)

\* parseGit17Loop without the preference for master: the last matching branch wins
RECURSIVE parseGit17Loop_LastMatch(_, _, _, _)
parseGit17Loop_LastMatch(lines, i, br, rev) ==
    IF i > Len(lines)
    THEN IF br = Empty \/ rev = Empty
         THEN ErrResult("NotFoundInOutput")
         ELSE Result(FALSE, Empty, br, rev, "nil")
    ELSE LET revisionReference == Split(lines[i], TAB)
         IN  IF Len(revisionReference) < 2 THEN ErrResult("panic")
             ELSE IF revisionReference[2] = sHEAD
                  THEN parseGit17Loop_LastMatch(lines, i + 1, br, revisionReference[1])
             ELSE IF revisionReference[1] = rev
                  THEN IF Len(revisionReference[2]) < Len(sRefsHeads) THEN ErrResult("panic")
                       ELSE parseGit17Loop_LastMatch(lines, i + 1, SliceFrom(revisionReference[2], Len(sRefsHeads)), rev)
             ELSE parseGit17Loop_LastMatch(lines, i + 1, br, rev)

\* the loop of parseGit17LsRemote from line i on
RECURSIVE parseGit17Loop(_, _, _, _)
parseGit17Loop(lines, i, br, rev) ==
    IF i > Len(lines)
    THEN IF br = Empty \/ rev = Empty
         THEN ErrResult("NotFoundInOutput")
         ELSE Result(FALSE, Empty, br, rev, "nil")
    ELSE LET revisionReference == Split(lines[i], TAB)
         IN  IF Len(revisionReference) < 2 THEN ErrResult("panic")
             ELSE IF revisionReference[2] = sHEAD
                  THEN parseGit17Loop(lines, i + 1, br, revisionReference[1])
             ELSE IF revisionReference[1] = rev /\ br # sMaster
                  THEN IF Len(revisionReference[2]) < Len(sRefsHeads) THEN ErrResult("panic")
                       ELSE parseGit17Loop(lines, i + 1, SliceFrom(revisionReference[2], Len(sRefsHeads)), rev)
             ELSE parseGit17Loop(lines, i + 1, br, rev)

\* parseGit17LsRemote: branch and revision from the output of ls-remote (no --symref)
parseGit17LsRemote(out) ==
    IF Len(out) = 0 THEN ErrResult("EmptyOutput")
    ELSE parseGit17Loop(Lines(out), 1, Empty, Empty)

\* the loop of parseGit17Remote from line i on
RECURSIVE parseGit17RemoteLoop(_, _)
parseGit17RemoteLoop(lines, i) ==
    IF i > Len(lines) THEN ErrResult("NoOriginRemote")
    ELSE LET nameURLKind == Split(lines[i], TAB)
         IN  IF Len(nameURLKind) < 2 THEN ErrResult("panic")
             ELSE IF nameURLKind[1] # sOrigin THEN parseGit17RemoteLoop(lines, i + 1)
             ELSE IF ~HasSuffix(nameURLKind[2], sFetch) THEN parseGit17RemoteLoop(lines, i + 1)
             ELSE Result(FALSE, SubSeq(nameURLKind[2], 1, Len(nameURLKind[2]) - Len(sFetch)), Empty, Empty, "nil")

\* parseGit17Remote: the fetch URL of the "origin" remote in the output of git remote -v
parseGit17Remote(out) ==
    IF Len(out) = 0 THEN ErrResult("NoOriginRemote")
    ELSE parseGit17RemoteLoop(Lines(out), 1)

(***************************************************************************)
(* Operations, as functions of the exit status, stdout and stderr of the   *)
(* command they spawn.  cmd.Output and dividedOutput return a non-nil      *)
(* error exactly when the exit status is not zero.                         *)
(***************************************************************************)
git28Status(ex, out) ==
    IF ex # 0 THEN ErrResult("ExitError")
    ELSE Result(FALSE, out, Empty, Empty, "nil")

git17Status(ex, out) ==
    IF ex # 0 THEN ErrResult("ExitError")
    ELSE Result(FALSE, out, Empty, Empty, "nil")

\* Branch: the output without its last newline
git28Branch(ex, out) ==
    IF ex # 0 THEN ErrResult("ExitError")
    ELSE Result(FALSE, TrimSuffix(out, <<NL>>), Empty, Empty, "nil")

git17Branch(ex, out) ==
    IF ex # 0 THEN ErrResult("ExitError")
    ELSE Result(FALSE, TrimSuffix(out, <<NL>>), Empty, Empty, "nil")

git28Stash(ex, out) ==
    IF ex # 0 THEN ErrResult("ExitError")
    ELSE Result(FALSE, out, Empty, Empty, "nil")

git17Stash(ex, out) ==
    IF ex # 0 THEN ErrResult("ExitError")
    ELSE Result(FALSE, out, Empty, Empty, "nil")

\* git28.LocalRevision without the length check: a short output is returned as it is
git28LocalRevision_NoLengthCheck(ex, out) ==
    IF ex # 0 THEN ErrResult("ExitError")
    ELSE Result(FALSE, SubSeq(out, 1, IF Len(out) < gitRevisionLength THEN Len(out) ELSE gitRevisionLength),
                Empty, Empty, "nil")

git28LocalRevision(ex, out) ==
    IF ex # 0 THEN ErrResult("ExitError")
    ELSE IF Len(out) < gitRevisionLength THEN ErrResult("ShortOutput")
    ELSE Result(FALSE, SubSeq(out, 1, gitRevisionLength), Empty, Empty, "nil")

git17LocalRevision(ex, out) ==
    IF ex # 0 THEN ErrResult("ExitError")
    ELSE IF Len(out) < gitRevisionLength THEN ErrResult("ShortOutput")
    ELSE Result(FALSE, SubSeq(out, 1, gitRevisionLength), Empty, Empty, "nil")

\* CheckGitRepoLocal has no error result: a failure is the empty string
CheckGitRepoLocal(ex, out) ==
    IF ex = 0 /\ Len(out) >= gitRevisionLength
    THEN Result(FALSE, SubSeq(out, 1, gitRevisionLength), Empty, Empty, "nil")
    ELSE Result(FALSE, Empty, Empty, Empty, "nil")

\* git28.Contains without the "no such commit" case: every non-zero exit is an error
git28Contains_NoSuchCommitIsError(ex, out, errOut, rev, branch) ==
    IF ex = 0 THEN Result(out = sContains, Empty, Empty, Empty, "nil")
    ELSE ErrResult("ExitError")

git28Contains(ex, out, errOut, rev, branch) ==
    IF ex = 0 THEN Result(out = sContains, Empty, Empty, Empty, "nil")
    ELSE IF HasPrefix(errOut, NoSuchCommitMsg(rev)) THEN Result(FALSE, Empty, Empty, Empty, "nil")
    ELSE ErrResult("ExitError")

\* git28.RemoteContains taking a "no such commit" message about any revision for the queried one
git28RemoteContains_AnyCommit(ex, out, errOut, rev, branch) ==
    IF ex = 0 THEN Result(out = sContains, Empty, Empty, Empty, "nil")
    ELSE IF HasPrefix(errOut, sNoSuchCommit) THEN Result(FALSE, Empty, Empty, Empty, "nil")
    ELSE ErrResult("ExitError")

git28RemoteContains(ex, out, errOut, rev, branch) ==
    IF ex = 0 THEN Result(out = sContains, Empty, Empty, Empty, "nil")
    ELSE IF HasPrefix(errOut, NoSuchCommitMsg(rev)) THEN Result(FALSE, Empty, Empty, Empty, "nil")
    ELSE ErrResult("ExitError")

git17Contains(ex, out, errOut, rev, branch) ==
    IF ex = 0
    THEN Result(out = sStar \o branch \o <<NL>> \/ out = sTwoSpaces \o branch \o <<NL>>,
                Empty, Empty, Empty, "nil")
    ELSE IF HasPrefix(errOut, NoSuchCommitMsg(rev)) THEN Result(FALSE, Empty, Empty, Empty, "nil")
    ELSE ErrResult("ExitError")

\* git17.RemoteContains testing for the marker as a prefix of stdout instead of all of it
git17RemoteContains_Prefix(ex, out, errOut, rev, branch) ==
    IF ex = 0
    THEN Result(HasPrefix(out, sOriginSlash \o branch \o <<NL>>), Empty, Empty, Empty, "nil")
    ELSE IF HasPrefix(errOut, NoSuchCommitMsg(rev)) THEN Result(FALSE, Empty, Empty, Empty, "nil")
    ELSE ErrResult("ExitError")

git17RemoteContains(ex, out, errOut, rev, branch) ==
    IF ex = 0
    THEN Result(out = sOriginSlash \o branch \o <<NL>>, Empty, Empty, Empty, "nil")
    ELSE IF HasPrefix(errOut, NoSuchCommitMsg(rev)) THEN Result(FALSE, Empty, Empty, Empty, "nil")
    ELSE ErrResult("ExitError")

git28RemoteURL(ex, out, errOut) ==
    IF ex # 0 /\ errOut = sNoSuchRemote THEN ErrResult("ErrNoRemote")
    ELSE IF ex # 0 THEN ErrResult("ExitError")
    ELSE Result(FALSE, TrimSuffix(out, <<NL>>), Empty, Empty, "nil")

git17RemoteURL(ex, out) ==
    IF ex # 0 THEN ErrResult("ExitError")
    ELSE LET r == parseGit17Remote(out)
         IN  IF r.err = "panic" THEN r
             ELSE IF r.err # "nil" THEN ErrResult("ErrNoRemote")
             ELSE r

\* git28.RemoteBranchAndRevision without the errBranchNotFound case: no fallback
git28LsRemote_NoFallback(ex, out, errOut) ==
    IF ex # 0 /\ HasPrefix(errOut, sNotARepository) THEN ErrResult("ErrNoRemote")
    ELSE IF ex # 0 /\ HasPrefix(errOut, sRepositoryNotFound) THEN ErrResult("NotFoundError")
    ELSE IF ex # 0 THEN ErrResult("Failure")
    ELSE LET r == parseGit28LsRemote(out)
         IN  IF r.err = "nil" THEN r
             ELSE IF r.err = "errBranchNotFound" THEN ErrResult("NotFoundInOutput")
             ELSE ErrResult(r.err)

\* git28.RemoteBranchAndRevision up to the call of g.remoteBranch: the result
\* carries errBranchNotFound (and the revision) exactly when the fallback is taken
git28LsRemote(ex, out, errOut) ==
    IF ex # 0 /\ HasPrefix(errOut, sNotARepository) THEN ErrResult("ErrNoRemote")
    ELSE IF ex # 0 /\ HasPrefix(errOut, sRepositoryNotFound) THEN ErrResult("NotFoundError")
    ELSE IF ex # 0 THEN ErrResult("Failure")
    ELSE LET r == parseGit28LsRemote(out)
         IN  IF r.err \in {"nil", "errBranchNotFound"} THEN r ELSE ErrResult(r.err)

\* git17.RemoteBranchAndRevision going on to g.remoteBranch after a failed ls-remote
git17LsRemote_GoesOnAfterFailure(ex, out, errOut) ==
    IF ex # 0 /\ HasPrefix(errOut, sNotARepository) THEN ErrResult("ErrNoRemote")
    ELSE IF ex # 0 THEN Result(FALSE, Empty, Empty, Empty, "nil")
    ELSE LET r == parseGit17LsRemote(out)
         IN  IF r.err # "nil" THEN ErrResult(r.err)
             ELSE Result(FALSE, Empty, Empty, r.revision, "nil")

\* git17.RemoteBranchAndRevision up to the call of g.remoteBranch
git17LsRemote(ex, out, errOut) ==
    IF ex # 0 /\ HasPrefix(errOut, sNotARepository) THEN ErrResult("ErrNoRemote")
    ELSE IF ex # 0 THEN ErrResult("Failure")
    ELSE LET r == parseGit17LsRemote(out)
         IN  IF r.err # "nil" THEN ErrResult(r.err)
             ELSE Result(FALSE, Empty, Empty, r.revision, "nil")

\* remoteBranch: the HEAD branch reported by git remote show origin
git28remoteBranch(ex, out, errOut) ==
    IF ex # 0 THEN ErrResult("Failure")
    ELSE LET i == Index(out, sHeadBranch)
         IN  IF i = -1 THEN ErrResult("NoHEADBranch")
             ELSE LET from == i + Len(sHeadBranch)
                      nl == IndexByte(SliceFrom(out, from), NL)
                      to == IF nl = -1 THEN Len(out) ELSE nl + from
                  IN  Result(FALSE, Empty, SubSeq(out, from + 1, to), Empty, "nil")

git17remoteBranch(ex, out, errOut) ==
    IF ex # 0 THEN ErrResult("Failure")
    ELSE LET i == Index(out, sHeadBranch)
         IN  IF i = -1 THEN ErrResult("NoHEADBranch")
             ELSE LET from == i + Len(sHeadBranch)
                      nl == IndexByte(SliceFrom(out, from), NL)
                      to == IF nl = -1 THEN Len(out) ELSE nl + from
                  IN  Result(FALSE, Empty, SubSeq(out, from + 1, to), Empty, "nil")

\* the rest of RemoteBranchAndRevision of git17 and git28, after g.remoteBranch returned rb
withRemoteBranch(rb, rev) ==
    IF rb.err # "nil" THEN ErrResult(rb.err)
    ELSE Result(FALSE, Empty, rb.branch, rev, "nil")

remoteGit28RemoteBranchAndRevision(ex, out, errOut) ==
    IF ex # 0 /\ HasPrefix(errOut, sRepositoryNotFound) THEN ErrResult("NotFoundError")
    ELSE IF ex # 0 THEN ErrResult("Failure")
    ELSE LET r == parseGit28LsRemote(out)
         IN  IF r.err = "errBranchNotFound"
             THEN LET g == guessBranch(out, r.revision)
                  IN  IF g.err # "nil" THEN ErrResult(g.err)
                      ELSE Result(FALSE, Empty, g.branch, r.revision, "nil")
             ELSE IF r.err # "nil" THEN ErrResult(r.err)
             ELSE r

remoteGit17RemoteBranchAndRevision(ex, out, errOut) ==
    IF ex # 0 THEN ErrResult("Failure")
    ELSE parseGit17LsRemote(out)

(***************************************************************************)
(* The environment: what the spawned git command may answer                *)
(***************************************************************************)
\* the largest number of lines of an ls-remote output
MaxLines == 3

Prefixes(s) == {SubSeq(s, 1, n) : n \in 0..Len(s)}

Hex == {"0", "1", "2", "3", "4", "5", "6", "7", "8", "9", "a", "b", "c", "d", "e", "f"}

IsHex(s) == \A i \in 1..Len(s) : s[i] \in Hex

sha1Line == <<"7","c","a","f","c","d","8","3","7","8","4","4","e","7","8","4","b","5","2","6","3","6","9","c","9","b","c","e","2","6","2","8","0","4","a","e","b","c","6","0","\n">>

\* git rev-parse ^master prints the negated revision
negatedLine == <<"^","7","c","a","f","c","d","8","3","7","8","4","4","e","7","8","4","b","5","2","6","3","6","9","c","9","b","c","e","2","6","2","8","0","4","a","e","b","c","6","0","\n">>

\* git rev-parse --show-toplevel prints a path
pathLine == <<"/","h","o","m","e","/","g","o","p","h","e","r","/","s","r","c","/","g","i","t","h","u","b",".","c","o","m","/","s","h","u","r","c","o","o","L","/","v","c","s","s","t","a","t","e","\n">>

RevParseOutputs == Prefixes(sha1Line) \cup Prefixes(negatedLine) \cup {pathLine}

Revisions == {<<"1","a">>, <<"1","a","b">>}

Branches == {<<"m","a","s","t","e","r">>, <<"m","a","i","n">>}

ContainsStdouts ==
    { Empty, <<"c","o","n","t","a","i","n","s","\n">>, <<"c","o","n","t","a","i","n","s">>, <<"c","o","n","t","a","i","n","s","\n","c","o","n","t","a","i","n","s","\n">>,
      <<"*"," ","m","a","s","t","e","r","\n">>, <<" "," ","m","a","s","t","e","r","\n">>, <<"*"," ","m","a","i","n","\n">>, <<" "," ","m","a","i","n","\n">>, <<" "," ","m","a","s","t","e","r","\n"," "," ","m","a","i","n","\n">>,
      <<" "," ","o","r","i","g","i","n","/","m","a","s","t","e","r","\n">>, <<" "," ","o","r","i","g","i","n","/","m","a","i","n","\n">>, <<" "," ","o","r","i","g","i","n","/","m","a","i","n","\n"," "," ","o","r","i","g","i","n","/","d","e","v","\n">> }

ContainsStderrs ==
    { Empty, NoSuchCommitMsg(<<"1","a">>), NoSuchCommitMsg(<<"1","a","b">>),
      NoSuchCommitMsg(<<"1","a">>) \o <<"u","s","a","g","e",":"," ","g","i","t","\n">>,
      <<"w","a","r","n","i","n","g",":"," ","x","\n">> \o NoSuchCommitMsg(<<"1","a">>),
      <<"e","r","r","o","r",":"," ","n","o"," ","s","u","c","h"," ","c","o","m","m","i","t"," ","1","a">>, <<"f","a","t","a","l",":"," ","b","a","d","\n">> }

TextOutputs == { Empty, <<" ","M"," ","a",".","g","o","\n">>, <<"m","a","s","t","e","r","\n">>, <<"m","a","s","t","e","r">> }

\* git remote get-url origin
GetURLOutcomes(hasOrigin) ==
    IF hasOrigin
    THEN { [exit |-> 0, stdout |-> <<"h","t","t","p","s",":","/","/","h","/","r","\n">>, stderr |-> Empty],
           [exit |-> 1, stdout |-> Empty, stderr |-> <<"f","a","t","a","l",":"," ","b","a","d","\n">>] }
    ELSE { [exit |-> 1, stdout |-> Empty, stderr |-> e] :
             e \in { sNoSuchRemote,
                     sNoSuchRemote \o <<"h","i","n","t",":"," ","x","\n">>,
                     <<"w","a","r","n","i","n","g",":"," ","x","\n">> \o sNoSuchRemote } }

\* git remote -v
RemoteVStdouts(hasOrigin) ==
    IF hasOrigin
    THEN { <<"o","r","i","g","i","n","\t","u"," ","(","f","e","t","c","h",")","\n","o","r","i","g","i","n","\t","u"," ","(","p","u","s","h",")","\n">>,
           <<"u","p","\t","v"," ","(","f","e","t","c","h",")","\n","o","r","i","g","i","n","\t","u"," ","(","f","e","t","c","h",")","\n">> }
    ELSE { Empty, <<"u","p","\t","v"," ","(","f","e","t","c","h",")","\n","u","p","\t","v"," ","(","p","u","s","h",")","\n">> }

RemoteVOutcomes(hasOrigin) ==
    { [exit |-> 0, stdout |-> o, stderr |-> Empty] : o \in RemoteVStdouts(hasOrigin) }
    \cup (IF hasOrigin THEN { [exit |-> 1, stdout |-> Empty, stderr |-> <<"f","a","t","a","l",":"," ","b","a","d","\n">>] } ELSE {})

\* the lines an ls-remote output is made of
LsRemoteLines ==
    { <<"1","a","\t","H","E","A","D">>, <<"2","b","\t","H","E","A","D">>, <<"r","e","f",":"," ","r","e","f","s","/","h","e","a","d","s","/","m","a","i","n","\t","H","E","A","D">>,
      <<"1","a","\t","r","e","f","s","/","h","e","a","d","s","/","m","a","s","t","e","r">>, <<"1","a","\t","r","e","f","s","/","h","e","a","d","s","/","d","e","v">>, <<"2","b","\t","r","e","f","s","/","h","e","a","d","s","/","m","a","i","n">>,
      <<"1","a","\t","r","e","f",":"," ","r","e","f","s","/","h","e","a","d","s","/","m","a","i","n">> }

RECURSIVE Join(_)
Join(lines) == IF lines = <<>> THEN <<>> ELSE Head(lines) \o <<NL>> \o Join(Tail(lines))

LsRemoteStdouts ==
    {Empty} \cup UNION { {Join(ls) : ls \in [1..n -> LsRemoteLines]} : n \in 1..MaxLines }

LsRemoteFailures ==
    { Empty, sRepositoryNotFound \o <<"f","a","t","a","l",":"," ","x","\n">>, <<"f","a","t","a","l",":"," ","u","n","a","b","l","e"," ","t","o"," ","a","c","c","e","s","s","\n">> }

LsRemoteNoOrigin ==
    { sNotARepository, sNotARepository \o <<"f","a","t","a","l",":"," ","x","\n">>, <<"w","a","r","n","i","n","g",":"," ","x","\n">> \o sNotARepository }

\* git ls-remote [--symref] origin|<url> HEAD refs/heads/*
LsRemoteOutcomes(hasOrigin) ==
    IF hasOrigin
    THEN { [exit |-> 0, stdout |-> o, stderr |-> Empty] : o \in LsRemoteStdouts }
         \cup { [exit |-> 1, stdout |-> Empty, stderr |-> e] : e \in LsRemoteFailures }
    ELSE { [exit |-> 1, stdout |-> Empty, stderr |-> e] : e \in LsRemoteNoOrigin }

\* git remote show origin
RemoteShowOutcomes ==
    { [exit |-> 0, stdout |-> o, stderr |-> Empty] :
        o \in { <<"*"," ","r","e","m","o","t","e"," ","o","r","i","g","i","n","\n"," "," ","H","E","A","D"," ","b","r","a","n","c","h",":"," ","m","a","i","n","\n"," "," ","R","e","m","o","t","e"," ","b","r","a","n","c","h",":","\n">>,
                <<"*"," ","r","e","m","o","t","e"," ","o","r","i","g","i","n","\n"," "," ","H","E","A","D"," ","b","r","a","n","c","h",":"," ","d","e","v">>,
                <<"*"," ","r","e","m","o","t","e"," ","o","r","i","g","i","n","\n"," "," ","H","E","A","D"," ","b","r","a","n","c","h",":"," ","(","u","n","k","n","o","w","n",")","\n">>,
                <<"*"," ","r","e","m","o","t","e"," ","o","r","i","g","i","n","\n">>, Empty } }
    \cup { [exit |-> 1, stdout |-> Empty, stderr |-> e] : e \in LsRemoteFailures }

(***************************************************************************)
(* The state machine: a caller invokes one operation at a time             *)
(***************************************************************************)
Local == {"git17", "git28"}

Remote == {"remoteGit17", "remoteGit28"}

NoResult == Result(FALSE, Empty, Empty, Empty, "nil")

Outcomes(outs, errs) == [exit : {0, 1}, stdout : outs, stderr : errs]

Init ==
    /\ pc = "idle"
    /\ impl = "none"
    /\ op = "none"
    /\ revision = Empty
    /\ defaultBranch = Empty
    /\ origin = TRUE
    /\ input = Empty
    /\ spawned = <<>>
    /\ outcomes = <<>>
    /\ lsRevision = Empty
    /\ ret = NoResult

\* an operation that spawns the one command cmd, gets the outcome oc and returns r
Finish(i, o, rev, br, org, cmd, oc, r) ==
    /\ pc' = "done"
    /\ impl' = i
    /\ op' = o
    /\ revision' = rev
    /\ defaultBranch' = br
    /\ origin' = org
    /\ input' = Empty
    /\ spawned' = <<cmd>>
    /\ outcomes' = <<oc>>
    /\ lsRevision' = Empty
    /\ ret' = r

Status(i) ==
    /\ pc = "idle"
    /\ \E oc \in Outcomes(TextOutputs, {Empty}) :
           Finish(i, "Status", Empty, Empty, TRUE, "git status --porcelain", oc,
                  IF i = "git28" THEN git28Status(oc.exit, oc.stdout) ELSE git17Status(oc.exit, oc.stdout))

Branch(i) ==
    /\ pc = "idle"
    /\ \E oc \in Outcomes(TextOutputs, {Empty}) :
           Finish(i, "Branch", Empty, Empty, TRUE, "git rev-parse --abbrev-ref HEAD", oc,
                  IF i = "git28" THEN git28Branch(oc.exit, oc.stdout) ELSE git17Branch(oc.exit, oc.stdout))

Stash(i) ==
    /\ pc = "idle"
    /\ \E oc \in Outcomes(TextOutputs, {Empty}) :
           Finish(i, "Stash", Empty, Empty, TRUE, "git stash list", oc,
                  IF i = "git28" THEN git28Stash(oc.exit, oc.stdout) ELSE git17Stash(oc.exit, oc.stdout))

LocalRevision(i) ==
    /\ pc = "idle"
    /\ \E br \in Branches, oc \in Outcomes(RevParseOutputs, {Empty}) :
           Finish(i, "LocalRevision", Empty, br, TRUE, "git rev-parse <defaultBranch>", oc,
                  IF i = "git28" THEN git28LocalRevision(oc.exit, oc.stdout)
                  ELSE git17LocalRevision(oc.exit, oc.stdout))

CheckGitRepoLocalCall ==
    /\ pc = "idle"
    /\ \E br \in Branches, oc \in Outcomes(RevParseOutputs, {Empty}) :
           Finish("vcs", "CheckGitRepoLocal", Empty, br, TRUE, "git rev-parse <branch>", oc,
                  CheckGitRepoLocal(oc.exit, oc.stdout))

Contains(i) ==
    /\ pc = "idle"
    /\ \E rev \in Revisions, br \in Branches, oc \in Outcomes(ContainsStdouts, ContainsStderrs) :
           Finish(i, "Contains", rev, br, TRUE,
                  IF i = "git28" THEN "git for-each-ref --contains <revision> refs/heads/<defaultBranch>"
                  ELSE "git branch --contains <revision> <defaultBranch>",
                  oc,
                  IF i = "git28" THEN git28Contains(oc.exit, oc.stdout, oc.stderr, rev, br)
                  ELSE git17Contains(oc.exit, oc.stdout, oc.stderr, rev, br))

RemoteContains(i) ==
    /\ pc = "idle"
    /\ \E rev \in Revisions, br \in Branches, oc \in Outcomes(ContainsStdouts, ContainsStderrs) :
           Finish(i, "RemoteContains", rev, br, TRUE,
                  IF i = "git28" THEN "git for-each-ref --contains <revision> refs/remotes/origin/<defaultBranch>"
                  ELSE "git branch -r --contains <revision> origin/<defaultBranch>",
                  oc,
                  IF i = "git28" THEN git28RemoteContains(oc.exit, oc.stdout, oc.stderr, rev, br)
                  ELSE git17RemoteContains(oc.exit, oc.stdout, oc.stderr, rev, br))

RemoteURL(i) ==
    /\ pc = "idle"
    /\ \E org \in BOOLEAN :
           \/ /\ i = "git28"
              /\ \E oc \in GetURLOutcomes(org) :
                   Finish(i, "RemoteURL", Empty, Empty, org, "git remote get-url origin", oc,
                          git28RemoteURL(oc.exit, oc.stdout, oc.stderr))
           \/ /\ i = "git17"
              /\ \E oc \in RemoteVOutcomes(org) :
                   Finish(i, "RemoteURL", Empty, Empty, org, "git remote -v", oc,
                          git17RemoteURL(oc.exit, oc.stdout))

\* RemoteBranchAndRevision of git17 and git28 up to its return or its call of g.remoteBranch
RemoteBranchAndRevision(i) ==
    /\ pc = "idle"
    /\ \E org \in BOOLEAN : \E oc \in LsRemoteOutcomes(org) :
        LET r == IF i = "git28" THEN git28LsRemote(oc.exit, oc.stdout, oc.stderr)
                 ELSE git17LsRemote(oc.exit, oc.stdout, oc.stderr)
            falls == IF i = "git28" THEN r.err = "errBranchNotFound" ELSE r.err = "nil"
        IN  /\ pc' = IF falls THEN "remoteBranch" ELSE "done"
            /\ impl' = i
            /\ op' = "RemoteBranchAndRevision"
            /\ origin' = org
            /\ spawned' = <<IF i = "git28" THEN "git ls-remote --symref origin HEAD refs/heads/*"
                            ELSE "git ls-remote origin HEAD refs/heads/*">>
            /\ outcomes' = <<oc>>
            /\ lsRevision' = IF falls THEN r.revision ELSE Empty
            /\ ret' = IF falls THEN NoResult ELSE r
            /\ UNCHANGED <<revision, defaultBranch, input>>

\* g.remoteBranch and the return of RemoteBranchAndRevision after it
RemoteBranch ==
    /\ pc = "remoteBranch"
    /\ \E oc \in RemoteShowOutcomes :
        /\ spawned' = Append(spawned, "git remote show origin")
        /\ outcomes' = Append(outcomes, oc)
        /\ ret' = withRemoteBranch(
                    IF impl = "git28" THEN git28remoteBranch(oc.exit, oc.stdout, oc.stderr)
                    ELSE git17remoteBranch(oc.exit, oc.stdout, oc.stderr),
                    lsRevision)
    /\ pc' = "done"
    /\ UNCHANGED <<impl, op, revision, defaultBranch, origin, input, lsRevision>>

\* RemoteBranchAndRevision of remoteGit17 and remoteGit28, given a remote URL
RemoteBranchAndRevisionURL(i) ==
    /\ pc = "idle"
    /\ \E oc \in LsRemoteOutcomes(TRUE) :
           Finish(i, "RemoteBranchAndRevision", Empty, Empty, TRUE,
                  IF i = "remoteGit28" THEN "git ls-remote --symref <remoteURL> HEAD refs/heads/*"
                  ELSE "git ls-remote <remoteURL> HEAD refs/heads/*",
                  oc,
                  IF i = "remoteGit28" THEN remoteGit28RemoteBranchAndRevision(oc.exit, oc.stdout, oc.stderr)
                  ELSE remoteGit17RemoteBranchAndRevision(oc.exit, oc.stdout, oc.stderr))

\* outputs without the expected markers, given to the parsers of ls-remote output
MalformedListings ==
    { <<NL>>, <<"1","a","\n">>, <<"1","a","\t","H","E","A","D","\n","1","a","\n">>, <<"1","a","\t","H","E","A","D","\n","\n">>,
      <<"1","a","\t","H","E","A","D","\n","1","a","\t","r","e","f","s","/","t","a","g","s","/","v","1","\n">>, <<"1","a","\t","H","E","A","D","\n","1","a","\t","t","a","g","s","\n">>,
      <<"1","a","\t","r","e","f","s","/","h","e","a","d","s","/","m","a","s","t","e","r","\n">>, <<"2","b","\t","r","e","f","s","/","h","e","a","d","s","/","m","a","i","n","\n","1","a","\t","r","e","f","s","/","h","e","a","d","s","/","d","e","v","\n">> }

\* outputs without the expected markers, given to parseGit17Remote
MalformedRemotes == { <<NL>>, <<"o","r","i","g","i","n","\n">>, <<"o","r","i","g","i","n","\t","u"," ","(","f","e","t","c","h",")","\n","\n">>, <<"u","p","\n">> }

\* ls-remote --symref outputs with a revision of more than gitRevisionLength bytes
LongRevisionListings ==
    { <<"r","e","f",":"," ","r","e","f","s","/","h","e","a","d","s","/","m","a","i","n","\t","H","E","A","D","\n","7","c","a","f","c","d","8","3","7","8","4","4","e","7","8","4","b","5","2","6","3","6","9","c","9","b","c","e","2","6","2","8","0","4","a","e","b","c","6","0","a","b","c","d","e","\t","H","E","A","D","\n">>,
      <<"7","c","a","f","c","d","8","3","7","8","4","4","e","7","8","4","b","5","2","6","3","6","9","c","9","b","c","e","2","6","2","8","0","4","a","e","b","c","6","0","a","b","c","d","e","\t","H","E","A","D","\n">> }

\* ls-remote --symref outputs of a remote whose HEAD points outside refs/heads/
OtherSymrefListings == { <<"r","e","f",":"," ","r","e","f","s","/","t","a","g","s","/","v","1","\t","H","E","A","D","\n">>, <<"r","e","f",":"," ","r","e","f","s","/","t","a","g","s","/","v","1","\t","H","E","A","D","\n","1","a","\t","H","E","A","D","\n">> }

\* ls-remote outputs with a line whose revision is empty
EmptyRevisionListings == { <<"\t","r","e","f","s","/","h","e","a","d","s","/","m","a","s","t","e","r","\n","1","a","\t","H","E","A","D","\n","1","a","\t","r","e","f","s","/","h","e","a","d","s","/","d","e","v","\n">> }

\* a parser called directly on the bytes out
Parsed(o, out, rev, r) ==
    /\ pc' = "done"
    /\ impl' = "vcsstate"
    /\ op' = o
    /\ revision' = rev
    /\ input' = out
    /\ ret' = r
    /\ UNCHANGED <<defaultBranch, origin, spawned, outcomes, lsRevision>>

ParseGit28LsRemote ==
    /\ pc = "idle"
    /\ \E out \in LsRemoteStdouts \cup MalformedListings \cup LongRevisionListings \cup OtherSymrefListings :
           Parsed("parseGit28LsRemote", out, Empty, parseGit28LsRemote(out))

ParseGit17LsRemote ==
    /\ pc = "idle"
    /\ \E out \in LsRemoteStdouts \cup MalformedListings \cup EmptyRevisionListings :
           Parsed("parseGit17LsRemote", out, Empty, parseGit17LsRemote(out))

GuessBranch ==
    /\ pc = "idle"
    /\ \E out \in LsRemoteStdouts \cup MalformedListings \cup EmptyRevisionListings, rev \in {<<"1","a">>, <<"2","b">>} :
           Parsed("guessBranch", out, rev, guessBranch(out, rev))

ParseGit17Remote ==
    /\ pc = "idle"
    /\ \E out \in RemoteVStdouts(TRUE) \cup RemoteVStdouts(FALSE) \cup {<<"o","r","i","g","i","n","\t","u"," ","(","p","u","s","h",")","\n">>}
                    \cup MalformedRemotes :
           Parsed("parseGit17Remote", out, Empty, parseGit17Remote(out))

\* the call has returned; the caller may call again
Return ==
    /\ pc = "done"
    /\ pc' = "idle"
    /\ impl' = "none"
    /\ op' = "none"
    /\ revision' = Empty
    /\ defaultBranch' = Empty
    /\ origin' = TRUE
    /\ input' = Empty
    /\ spawned' = <<>>
    /\ outcomes' = <<>>
    /\ lsRevision' = Empty
    /\ ret' = NoResult

Next ==
    \/ \E i \in Local : Status(i)
    \/ \E i \in Local : Branch(i)
    \/ \E i \in Local : Stash(i)
    \/ \E i \in Local : LocalRevision(i)
    \/ CheckGitRepoLocalCall
    \/ \E i \in Local : Contains(i)
    \/ \E i \in Local : RemoteContains(i)
    \/ \E i \in Local : RemoteURL(i)
    \/ \E i \in Local : RemoteBranchAndRevision(i)
    \/ RemoteBranch
    \/ \E i \in Remote : RemoteBranchAndRevisionURL(i)
    \/ ParseGit28LsRemote
    \/ ParseGit17LsRemote
    \/ GuessBranch
    \/ ParseGit17Remote
    \/ Return

Spec == Init /\ [][Next]_vars

(***************************************************************************)
(* Properties                                                              *)
(***************************************************************************)
Returned(o) == pc = "done" /\ op = o

IsContainment == pc = "done" /\ op \in {"Contains", "RemoteContains"}

\* the stdout that means "contained", per strategy and operation
Markers(i, o, br) ==
    IF i = "git28" THEN {<<"c","o","n","t","a","i","n","s","\n">>}
    ELSE IF o = "Contains" THEN {<<"*"," ">> \o br \o <<NL>>, <<" "," ">> \o br \o <<NL>>}
    ELSE {<<" "," ","o","r","i","g","i","n","/">> \o br \o <<NL>>}

\* C1: LocalRevision returns an error and an empty revision whenever git rev-parse
\* exits zero with fewer than 40 bytes of output; the short output is never
\* returned truncated or padded.
C1_ShortOutputIsError ==
    (Returned("LocalRevision") /\ outcomes[1].exit = 0 /\ Len(outcomes[1].stdout) < 40)
        => (ret.err # "nil" /\ ret.s = Empty)

C1_Witness ==
    /\ Returned("LocalRevision")
    /\ outcomes[1].exit = 0
    /\ Len(outcomes[1].stdout) = 39
    /\ ret.err = "ShortOutput"
    /\ ret.s = Empty

\* C2: every revision LocalRevision returns without error, and every non-empty
\* string CheckGitRepoLocal returns, has length exactly 40 and only hexadecimal digits.
C2_RevisionIs40Hex ==
    (\/ Returned("LocalRevision") /\ ret.err = "nil"
     \/ Returned("CheckGitRepoLocal") /\ ret.s # Empty)
        => (Len(ret.s) = 40 /\ IsHex(ret.s))

\* C3 as stated: whenever stderr is exactly "error: no such commit <rev>\n" for the
\* queried revision, Contains and RemoteContains return false with no error,
\* whatever the exit status and stdout are.
C3_Original ==
    (IsContainment /\ outcomes[1].stderr = NoSuchCommitMsg(revision))
        => (ret.b = FALSE /\ ret.err = "nil")

\* C3 amended: whenever stderr is exactly "error: no such commit <rev>\n" for the
\* queried revision, Contains and RemoteContains return no error; they return false
\* whenever the exit status is not zero, whatever stdout is, and on a zero exit
\* the result is true exactly when stdout is the expected marker.
C3_NoSuchCommitIsFalse ==
    (IsContainment /\ outcomes[1].stderr = NoSuchCommitMsg(revision))
        => /\ ret.err = "nil"
           /\ outcomes[1].exit # 0 => ret.b = FALSE
           /\ outcomes[1].exit = 0 => (ret.b <=> outcomes[1].stdout \in Markers(impl, op, defaultBranch))

C3_Witness ==
    /\ IsContainment
    /\ outcomes[1].stderr = NoSuchCommitMsg(revision)
    /\ outcomes[1].exit # 0
    /\ outcomes[1].stdout \in Markers(impl, op, defaultBranch)
    /\ ret.b = FALSE
    /\ ret.err = "nil"

\* C4: Contains and RemoteContains return true if and only if the command exits
\* zero and its stdout is byte-for-byte the expected marker; any other stdout on a
\* zero exit gives false with no error.
C4_TrueIffMarker ==
    IsContainment
        => /\ ret.b <=> (outcomes[1].exit = 0 /\ outcomes[1].stdout \in Markers(impl, op, defaultBranch))
           /\ outcomes[1].exit = 0 => ret.err = "nil"

C4_Witness ==
    /\ IsContainment
    /\ impl = "git17"
    /\ op = "RemoteContains"
    /\ outcomes[1].exit = 0
    /\ outcomes[1].stdout = <<" "," ","o","r","i","g","i","n","/","m","a","i","n","\n"," "," ","o","r","i","g","i","n","/","d","e","v","\n">>
    /\ defaultBranch = <<"m","a","i","n">>
    /\ ret.b = FALSE
    /\ ret.err = "nil"

\* C5 as stated: for every non-zero exit whose stderr is not the
\* "error: no such commit <rev>\n" message for the queried revision, Contains and
\* RemoteContains return a non-nil error with result false.
C5_Original ==
    (IsContainment /\ outcomes[1].exit # 0 /\ outcomes[1].stderr # NoSuchCommitMsg(revision))
        => (ret.err # "nil" /\ ret.b = FALSE)

\* C5 amended: for every non-zero exit whose stderr does not begin with the
\* "error: no such commit <rev>\n" message for the queried revision, Contains and
\* RemoteContains return a non-nil error with result false.
C5_OtherFailureIsError ==
    (IsContainment /\ outcomes[1].exit # 0 /\ ~HasPrefix(outcomes[1].stderr, NoSuchCommitMsg(revision)))
        => (ret.err # "nil" /\ ret.b = FALSE)

C5_Witness ==
    /\ IsContainment
    /\ outcomes[1].exit # 0
    /\ revision = <<"1","a">>
    /\ outcomes[1].stderr = NoSuchCommitMsg(<<"1","a","b">>)
    /\ ret.err = "ExitError"
    /\ ret.b = FALSE

\* C6: when no "origin" remote is configured, RemoteURL and RemoteBranchAndRevision
\* of git17 and git28 always return ErrNoRemote, never a generic error, for every
\* stderr text git may emit in that situation.
C6_NoOriginIsErrNoRemote ==
    (pc = "done" /\ ~origin /\ impl \in Local /\ op \in {"RemoteURL", "RemoteBranchAndRevision"})
        => ret.err = "ErrNoRemote"

\* a line "<rev>\tHEAD" or "<rev>\trefs/heads/<branch>", as ls-remote without symref prints it
PlainLine(l) ==
    LET parts == SplitN2(l, TAB)
    IN  /\ Len(parts) = 2
        /\ ~HasPrefix(parts[1], <<"r","e","f",":"," ">>)
        /\ IndexByte(parts[2], TAB) = -1
        /\ \/ parts[2] = <<"H","E","A","D">>
           \/ HasPrefix(parts[2], <<"r","e","f","s","/","h","e","a","d","s","/">>) /\ Len(parts[2]) > Len(<<"r","e","f","s","/","h","e","a","d","s","/">>)

LineRev(l) == SplitN2(l, TAB)[1]

LineRef(l) == SplitN2(l, TAB)[2]

\* the positions of the HEAD line(s) of a plain ls-remote output
HeadLines(out) == {k \in 1..Len(Lines(out)) : LineRef(Lines(out)[k]) = <<"H","E","A","D">>}

\* a plain ls-remote output with exactly one HEAD line
PlainListing(out) ==
    /\ out # Empty
    /\ out[Len(out)] = NL
    /\ \A k \in 1..Len(Lines(out)) : PlainLine(Lines(out)[k])
    /\ Cardinality(HeadLines(out)) = 1

HeadLine(out) == CHOOSE k \in HeadLines(out) : TRUE

HeadRev(out) == LineRev(Lines(out)[HeadLine(out)])

\* the positions of the refs/heads/* lines that carry the revision of HEAD
Matching(out) ==
    {k \in 1..Len(Lines(out)) :
        /\ k # HeadLine(out)
        /\ LineRev(Lines(out)[k]) = HeadRev(out)}

MasterLines(out) == {k \in Matching(out) : LineRef(Lines(out)[k]) = <<"r","e","f","s","/","h","e","a","d","s","/","m","a","s","t","e","r">>}

\* two or more branches carry the revision of HEAD and one of them is master
TieWithMaster(out) ==
    /\ PlainListing(out)
    /\ Cardinality(Matching(out)) >= 2
    /\ MasterLines(out) # {}

\* C7 as stated: for any ls-remote output in which two or more refs/heads/* lines
\* carry the revision of HEAD and one of them is refs/heads/master, parseGit17LsRemote
\* and guessBranch return "master", whatever the order of the lines.
C7_Original ==
    /\ (Returned("parseGit17LsRemote") /\ TieWithMaster(input))
          => (ret.err = "nil" /\ ret.branch = <<"m","a","s","t","e","r">>)
    /\ (Returned("guessBranch") /\ TieWithMaster(input) /\ revision = HeadRev(input))
          => (ret.err = "nil" /\ ret.branch = <<"m","a","s","t","e","r">>)

\* C7 amended: for any such output guessBranch returns "master" whatever the order
\* of the lines, and parseGit17LsRemote returns "master" whatever the order of the
\* branch lines among themselves, provided the HEAD line comes before the
\* refs/heads/master line.
C7_PreferMaster ==
    /\ (/\ Returned("parseGit17LsRemote")
        /\ TieWithMaster(input)
        /\ \E k \in MasterLines(input) : HeadLine(input) < k)
          => (ret.err = "nil" /\ ret.branch = <<"m","a","s","t","e","r">>)
    /\ (Returned("guessBranch") /\ TieWithMaster(input) /\ revision = HeadRev(input))
          => (ret.err = "nil" /\ ret.branch = <<"m","a","s","t","e","r">>)

C7_Witness ==
    /\ Returned("parseGit17LsRemote")
    /\ input = <<"1","a","\t","H","E","A","D","\n","1","a","\t","r","e","f","s","/","h","e","a","d","s","/","m","a","s","t","e","r","\n","1","a","\t","r","e","f","s","/","h","e","a","d","s","/","d","e","v","\n">>
    /\ TieWithMaster(input)
    /\ ret.err = "nil"
    /\ ret.branch = <<"m","a","s","t","e","r">>
    /\ ret.revision = <<"1","a">>

\* the remote-listing parser was given out: parseGit28LsRemote called on it, or
\* remoteGit28.RemoteBranchAndRevision whose ls-remote exited zero with it
Git28Parsed(out) ==
    \/ Returned("parseGit28LsRemote") /\ input = out
    \/ /\ Returned("RemoteBranchAndRevision")
       /\ impl = "remoteGit28"
       /\ outcomes[1].exit = 0
       /\ outcomes[1].stdout = out

\* C8 as stated: given "<rev>\tHEAD\n<rev>\tref: refs/heads/main\n" the remote-listing
\* parser returns branch "main" and revision <rev> with no error.
C8_Original ==
    Git28Parsed(<<"1","a","\t","H","E","A","D","\n","1","a","\t","r","e","f",":"," ","r","e","f","s","/","h","e","a","d","s","/","m","a","i","n","\n">>)
        => (ret.err = "nil" /\ ret.branch = <<"m","a","i","n">> /\ ret.revision = <<"1","a">>)

\* C8 amended: given "<rev>\tHEAD\nref: refs/heads/main\tHEAD\n" (the symbolic
\* reference written as git writes it, before the tab and with HEAD after it), in
\* either order of the two lines, the remote-listing parser returns branch "main"
\* and revision <rev> with no error.
C8_SymrefSample ==
    (\/ Git28Parsed(<<"1","a","\t","H","E","A","D","\n","r","e","f",":"," ","r","e","f","s","/","h","e","a","d","s","/","m","a","i","n","\t","H","E","A","D","\n">>)
     \/ Git28Parsed(<<"r","e","f",":"," ","r","e","f","s","/","h","e","a","d","s","/","m","a","i","n","\t","H","E","A","D","\n","1","a","\t","H","E","A","D","\n">>))
        => (ret.err = "nil" /\ ret.branch = <<"m","a","i","n">> /\ ret.revision = <<"1","a">>)

C8_Witness ==
    /\ Git28Parsed(<<"1","a","\t","H","E","A","D","\n","r","e","f",":"," ","r","e","f","s","/","h","e","a","d","s","/","m","a","i","n","\t","H","E","A","D","\n">>)
    /\ impl = "remoteGit28"
    /\ ret.err = "nil"
    /\ ret.branch = <<"m","a","i","n">>
    /\ ret.revision = <<"1","a">>

\* a line "<rev>\tHEAD" of ls-remote --symref output
HeadRevLine(l) == HasSuffix(l, <<"\t","H","E","A","D">>) /\ Len(l) > Len(<<"\t","H","E","A","D">>) /\ ~HasPrefix(l, <<"r","e","f",":"," ">>)

\* a line "ref: refs/heads/<branch>\tHEAD" of ls-remote --symref output
SymrefLine(l) ==
    /\ HasPrefix(l, <<"r","e","f",":"," ","r","e","f","s","/","h","e","a","d","s","/">>)
    /\ HasSuffix(l, <<"\t","H","E","A","D">>)
    /\ Len(l) > Len(<<"r","e","f",":"," ","r","e","f","s","/","h","e","a","d","s","/">>) + Len(<<"\t","H","E","A","D">>)

HasHeadRevLine(out) == out # Empty /\ \E k \in 1..Len(Lines(out)) : HeadRevLine(Lines(out)[k])

HasSymrefLine(out) == out # Empty /\ \E k \in 1..Len(Lines(out)) : SymrefLine(Lines(out)[k])

\* the output of git remote show origin reports br as the HEAD branch
ReportsHeadBranch(out, br) ==
    \/ Index(out, <<"\n"," "," ","H","E","A","D"," ","b","r","a","n","c","h",":"," ">> \o br \o <<NL>>) # -1
    \/ HasSuffix(out, <<"\n"," "," ","H","E","A","D"," ","b","r","a","n","c","h",":"," ">> \o br)

HeadBranchNames == {<<"m","a","i","n">>, <<"d","e","v">>, <<"(","u","n","k","n","o","w","n",")">>}

\* the legacy query git remote show origin is run (or about to be run) by this call
RunsLegacyQuery == pc = "remoteBranch" \/ (Len(spawned) = 2 /\ spawned[2] = "git remote show origin")

\* C9: git28.RemoteBranchAndRevision runs the legacy git remote show origin query
\* exactly when ls-remote --symref exited zero with a HEAD revision line and no
\* symbolic-reference line for HEAD, and it then returns the branch of the
\* "HEAD branch: " line together with the revision of the ls-remote output.
C9_CallTimeFallback ==
    (impl = "git28" /\ op = "RemoteBranchAndRevision")
        => /\ RunsLegacyQuery <=>
                /\ outcomes[1].exit = 0
                /\ HasHeadRevLine(outcomes[1].stdout)
                /\ ~HasSymrefLine(outcomes[1].stdout)
           /\ HasSymrefLine(outcomes[1].stdout) => ~RunsLegacyQuery
           /\ \A br \in HeadBranchNames :
                (pc = "done" /\ Len(outcomes) = 2 /\ outcomes[2].exit = 0
                    /\ ReportsHeadBranch(outcomes[2].stdout, br))
                  => /\ ret.err = "nil"
                     /\ ret.branch = br
                     /\ HeadRevLine(ret.revision \o <<"\t","H","E","A","D">>)
                     /\ \E k \in 1..Len(Lines(outcomes[1].stdout)) :
                            Lines(outcomes[1].stdout)[k] = ret.revision \o <<"\t","H","E","A","D">>

C9_Witness ==
    /\ impl = "git28"
    /\ Returned("RemoteBranchAndRevision")
    /\ outcomes[1].stdout = <<"1","a","\t","H","E","A","D","\n","1","a","\t","r","e","f","s","/","h","e","a","d","s","/","m","a","s","t","e","r","\n">>
    /\ spawned = <<"git ls-remote --symref origin HEAD refs/heads/*", "git remote show origin">>
    /\ ReportsHeadBranch(outcomes[2].stdout, <<"m","a","i","n">>)
    /\ ret.branch = <<"m","a","i","n">>
    /\ ret.revision = <<"1","a">>
    /\ ret.err = "nil"

Strategies == Local \cup Remote

NoDuplicates(seq) == \A j, k \in 1..Len(seq) : seq[j] = seq[k] => j = k

\* no command is spawned twice, and a command that exited non-zero is the last one
SingleAttempt ==
    /\ NoDuplicates(spawned)
    /\ \A k \in 1..Len(outcomes) :
          outcomes[k].exit # 0 => (k = Len(spawned) /\ pc = "done")

\* C10 as stated: in every operation each external command is spawned at most once
\* per call, and once a command exits non-zero the operation returns an error
\* without spawning any further command.
C10_Original ==
    (impl \in Strategies)
        => /\ SingleAttempt
           /\ \A k \in 1..Len(outcomes) : outcomes[k].exit # 0 => ret.err # "nil"

\* C10 amended: in every operation of the strategies each external command is spawned
\* at most once per call, and once a command exits non-zero the operation returns
\* without spawning any further command; it returns an error, except that Contains
\* and RemoteContains return false with no error when stderr begins with the
\* "error: no such commit <rev>\n" message for the queried revision.
C10_SingleAttempt ==
    (impl \in Strategies)
        => /\ SingleAttempt
           /\ \A k \in 1..Len(outcomes) :
                outcomes[k].exit # 0
                  => \/ ret.err # "nil"
                     \/ /\ op \in {"Contains", "RemoteContains"}
                        /\ HasPrefix(outcomes[k].stderr, NoSuchCommitMsg(revision))
                        /\ ret.b = FALSE

C10_Witness ==
    /\ impl = "git28"
    /\ Returned("RemoteBranchAndRevision")
    /\ origin
    /\ outcomes[1].exit # 0
    /\ spawned = <<"git ls-remote --symref origin HEAD refs/heads/*">>
    /\ ret.err = "Failure"

\* C11: whenever a remote query fails with the remote reporting a missing repository
\* (non-zero exit, stderr beginning "remote: Repository not found.\n"),
\* RemoteBranchAndRevision returns a NotFoundError, for git28, remoteGit28, git17
\* and remoteGit17.
C11_MissingRepositoryIsNotFound ==
    (/\ Returned("RemoteBranchAndRevision")
     /\ \E k \in 1..Len(outcomes) :
           /\ outcomes[k].exit # 0
           /\ HasPrefix(outcomes[k].stderr, <<"r","e","m","o","t","e",":"," ","R","e","p","o","s","i","t","o","r","y"," ","n","o","t"," ","f","o","u","n","d",".","\n">>))
        => ret.err = "NotFoundError"

\* a line of ls-remote output without the expected markers: no tab, or a ref that
\* is neither HEAD nor under refs/heads/
MalformedLine(l) ==
    \/ IndexByte(l, TAB) = -1
    \/ /\ SplitN2(l, TAB)[2] # <<"H","E","A","D">>
       /\ ~HasPrefix(SplitN2(l, TAB)[2], <<"r","e","f","s","/","h","e","a","d","s","/">>)

\* an ls-remote output without the expected markers: empty, a single newline, a
\* malformed line, or no HEAD line
MalformedListing(out) ==
    \/ out = Empty
    \/ out = <<NL>>
    \/ \E k \in 1..Len(Lines(out)) : MalformedLine(Lines(out)[k])
    \/ \A k \in 1..Len(Lines(out)) : ~HasSuffix(Lines(out)[k], <<"\t","H","E","A","D">>)

\* a git remote -v output without the expected markers: empty, a single newline,
\* or a line without a tab
MalformedRemote(out) ==
    \/ out = Empty
    \/ out = <<NL>>
    \/ \E k \in 1..Len(Lines(out)) : IndexByte(Lines(out)[k], TAB) = -1

\* C12: for every output that lacks the expected markers, parseGit28LsRemote,
\* parseGit17LsRemote, guessBranch and parseGit17Remote return a non-nil error:
\* never a crash, never a result.
C12_MalformedIsError ==
    (\/ /\ pc = "done"
        /\ op \in {"parseGit28LsRemote", "parseGit17LsRemote", "guessBranch"}
        /\ MalformedListing(input)
     \/ Returned("parseGit17Remote") /\ MalformedRemote(input))
        => ret.err \notin {"nil", "panic"}

\* the branch returned, or "fails" for every way of not returning one
Outcome(r) == IF r.err = "nil" THEN r.branch ELSE <<"f","a","i","l","s">>

\* guessBranch and parseGit17LsRemote were called on the same plain listing, the
\* former with the revision of its HEAD line: one is the call that returned, the
\* other is computed on the same input
SameGuessOn(out) ==
    \/ /\ Returned("guessBranch")
       /\ input = out
       /\ revision = HeadRev(out)
       /\ Outcome(ret) = Outcome(parseGit17LsRemote(out))
    \/ /\ Returned("parseGit17LsRemote")
       /\ input = out
       /\ Outcome(ret) = Outcome(guessBranch(out, HeadRev(out)))

ComparesGuessOn(out) ==
    \/ Returned("guessBranch") /\ input = out /\ revision = HeadRev(out)
    \/ Returned("parseGit17LsRemote") /\ input = out

\* C13 as stated: for every ls-remote output (lines of HEAD and refs/heads/* refs,
\* in any order), guessBranch(out, R) with R the revision of the HEAD line returns
\* the same branch, or fails in the same cases, as parseGit17LsRemote(out).
C13_Original ==
    (PlainListing(input) /\ ComparesGuessOn(input)) => SameGuessOn(input)

\* every line of the listing has a non-empty revision
NonEmptyRevisions(out) == \A k \in 1..Len(Lines(out)) : LineRev(Lines(out)[k]) # Empty

\* C13 amended: the same, for every ls-remote output whose revisions are not empty
\* and in which the HEAD line comes before every refs/heads/* line that carries
\* its revision.
C13_SameGuess ==
    (/\ PlainListing(input)
     /\ NonEmptyRevisions(input)
     /\ ComparesGuessOn(input)
     /\ \A k \in Matching(input) : HeadLine(input) < k)
        => SameGuessOn(input)

C13_Witness ==
    /\ Returned("guessBranch")
    /\ input = <<"1","a","\t","H","E","A","D","\n","1","a","\t","r","e","f","s","/","h","e","a","d","s","/","m","a","s","t","e","r","\n","1","a","\t","r","e","f","s","/","h","e","a","d","s","/","d","e","v","\n">>
    /\ revision = <<"1","a">>
    /\ ret.branch = <<"m","a","s","t","e","r">>
    /\ parseGit17LsRemote(input).branch = <<"m","a","s","t","e","r">>

\* every line of the output has a tab, as the lines of ls-remote have
TabSeparated(out) ==
    /\ out # Empty
    /\ out[Len(out)] = NL
    /\ \A k \in 1..Len(Lines(out)) : IndexByte(Lines(out)[k], TAB) # -1

\* the branches <B> of the lines "ref: refs/heads/<B>\tHEAD" of the output
SymrefBranches(out) ==
    {SubSeq(Lines(out)[k], Len(<<"r","e","f",":"," ","r","e","f","s","/","h","e","a","d","s","/">>) + 1, Len(Lines(out)[k]) - Len(<<"\t","H","E","A","D">>)) :
        k \in {j \in 1..Len(Lines(out)) : SymrefLine(Lines(out)[j])}}

\* a line "<R>\tHEAD" that is not a line "ref: refs/heads/...\tHEAD"
RevisionOfHeadLine(l) ==
    /\ HasSuffix(l, <<"\t","H","E","A","D">>)
    /\ Len(l) > Len(<<"\t","H","E","A","D">>)
    /\ ~HasPrefix(l, <<"r","e","f",":"," ","r","e","f","s","/","h","e","a","d","s","/">>)

\* the revisions <R> of the lines "<R>\tHEAD" of the output
HeadRevisions(out) ==
    {SubSeq(Lines(out)[k], 1, Len(Lines(out)[k]) - Len(<<"\t","H","E","A","D">>)) :
        k \in {j \in 1..Len(Lines(out)) : RevisionOfHeadLine(Lines(out)[j])}}

\* C14: on ls-remote --symref output parseGit28LsRemote returns (B, R, nil) if the
\* output has both a line "ref: refs/heads/<B>\tHEAD" and a line "<R>\tHEAD", in
\* whatever order and among whatever other lines; it returns errBranchNotFound
\* together with R exactly when a "<R>\tHEAD" line is present and no
\* "ref: refs/heads/...\tHEAD" line is; R is returned verbatim, whatever its length.
C14_SymrefParse ==
    (Returned("parseGit28LsRemote") /\ TabSeparated(input))
        => /\ (SymrefBranches(input) # {} /\ HeadRevisions(input) # {})
                => /\ ret.err = "nil"
                   /\ ret.branch \in SymrefBranches(input)
                   /\ ret.revision \in HeadRevisions(input)
           /\ ret.err = "errBranchNotFound"
                <=> (HeadRevisions(input) # {} /\ SymrefBranches(input) = {})
           /\ ret.err = "errBranchNotFound"
                => (ret.branch = Empty /\ ret.revision \in HeadRevisions(input))

C14_Witness ==
    /\ Returned("parseGit28LsRemote")
    /\ input = <<"r","e","f",":"," ","r","e","f","s","/","h","e","a","d","s","/","m","a","i","n","\t","H","E","A","D","\n","7","c","a","f","c","d","8","3","7","8","4","4","e","7","8","4","b","5","2","6","3","6","9","c","9","b","c","e","2","6","2","8","0","4","a","e","b","c","6","0","a","b","c","d","e","\t","H","E","A","D","\n">>
    /\ ret.err = "nil"
    /\ ret.branch = <<"m","a","i","n">>
    /\ ret.revision = <<"7","c","a","f","c","d","8","3","7","8","4","4","e","7","8","4","b","5","2","6","3","6","9","c","9","b","c","e","2","6","2","8","0","4","a","e","b","c","6","0","a","b","c","d","e">>
    /\ Len(ret.revision) > 40

====
